---- MODULE Spec2Model ----
(***************************************************************************)
(* The two driver scripts of the repository, src/p1.js and                 *)
(* src/unnamed/part_000.  Each script is one sequential async chain:       *)
(* main() awaits createResources, listResources, uploadFileToS3,           *)
(* sendMessageToSQS, checkSQSMessages, receiveSQSMessage, checkSQSMessages,*)
(* sleep, deleteResources, sleep, listResources inside one try/catch.      *)
(*                                                                         *)
(* The provider (EC2, S3, SQS) is the environment.  One step of the model  *)
(* is one `await client.send(...)` (the call is issued and its response,   *)
(* or its rejection, arrives) or one `await sleep(...)`, followed by the    *)
(* synchronous code up to the next await.  Spec launches one of the two    *)
(* scripts; PairSpec launches both against the same provider, where        *)
(* scripts that are at the same await take the step together and see the   *)
(* same response.                                                          *)
(*                                                                         *)
(* Responses are drawn from the shapes the code distinguishes: an optional *)
(* collection may be absent (undefined), present and empty, or present     *)
(* with entries.  What the code reads without a test is there in every     *)
(* response that resolves: Instances[0] of RunInstances, Attributes of     *)
(* GetQueueAttributes, and the Title attribute of a received message,      *)
(* which is the message this run sent.  `undefined` is written "none".     *)
(***************************************************************************)
EXTENDS Integers, Sequences, FiniteSets, TLC

VARIABLES run

vars == <<run>>

\* ---------------------------------------------------------------- bounds
\* Listing responses (pages) one purge may receive.
MaxPages == 2
\* Entries of all the Contents arrays one purge is handed, repeats included.
MaxObjects == 2

\* ------------------------------------------------------ program constants
\* ReceiveMessageCommand({ MaxNumberOfMessages: 1, ... }): the provider
\* returns at most this many messages.
MaxNumberOfMessages == 1

\* ------------------------------------------------------------ value sets
Scripts == {"p1", "part_000"}

\* RunInstances launches one instance (MinCount = MaxCount = 1).
InstanceIds == {"i-1"}
\* `my-test-bucket-${Date.now()}`: the clock decides the name.
BucketNames == {"my-test-bucket-1", "my-test-bucket-2"}
QueueNames == {"my-test-queue-1"}
QueueUrls == {"url-1", "url-2"}
Keys == {"CSE546test.txt", "other.txt"}
ReceiptHandles == {"h1", "h2"}

RECURSIVE SeqsUpTo(_, _)
SeqsUpTo(S, n) ==
    IF n = 0 THEN {<<>>}
    ELSE LET shorter == SeqsUpTo(S, n - 1)
         IN  shorter \cup {Append(q, x) : q \in shorter, x \in S}

\* ------------------------------------------------------ script constants
ImageId(s) == IF s = "p1" THEN "ami-0d53d72369335a9d6" ELSE "ami-0e86e20dae9224db8"

\* The pause after deleteResources, in milliseconds.
FinalPause(s) == IF s = "p1" THEN "60000" ELSE "20000"

\* --------------------------------------------------------------- events
\* What a script does that the outside can see, in order: provider calls
\* (with the response's outcome), pauses and console lines.
Call(op, target, arg, result) ==
    [kind |-> "call", op |-> op, target |-> target, arg |-> arg, result |-> result]

Sleep(ms) ==
    [kind |-> "sleep", op |-> "sleep", target |-> "none", arg |-> ms, result |-> "ok"]

Log(msg) ==
    [kind |-> "log", op |-> msg, target |-> "none", arg |-> "none", result |-> "ok"]

\* ------------------------------------------------------------------ main
\* The statements of main's try block, in program order.
MainOrder ==
    << "createResources", "listResources_1", "uploadFileToS3", "sendMessageToSQS",
       "checkSQSMessages_1", "receiveSQSMessage", "checkSQSMessages_2", "sleep_1",
       "deleteResources", "sleep_2", "listResources_2" >>

\* The first await of each statement.
EntryLabel(m) ==
    CASE m = "createResources" -> "RunInstances"
      [] m \in {"listResources_1", "listResources_2"} -> "DescribeInstances"
      [] m = "uploadFileToS3" -> "PutObject"
      [] m = "sendMessageToSQS" -> "SendMessage"
      [] m \in {"checkSQSMessages_1", "checkSQSMessages_2"} -> "GetQueueAttributes"
      [] m = "receiveSQSMessage" -> "ReceiveMessage"
      [] m \in {"sleep_1", "sleep_2"} -> "sleep"
      [] OTHER -> "end"

IndexOf(m) == CHOOSE i \in 1..Len(MainOrder) : MainOrder[i] = m

NoResponse == [ContentsPresent |-> FALSE, Contents |-> <<>>,
               IsTruncated |-> FALSE, NextContinuationToken |-> "none"]

NoMessage == [ReceiptHandle |-> "none"]

\* Mutant: the loop test negated, `while (!isTruncated)`.
LoopContinues_negated(st) == ~st.isTruncated

\* `while (isTruncated)`
LoopContinues(st) == st.isTruncated

\* The loop test of the purge: on to the next listing call, or out of the
\* loop to the first teardown call.
LoopTest(st) ==
    IF LoopContinues(st) THEN [st EXCEPT !.pc = "ListObjectsV2"]
    ELSE [st EXCEPT !.pc = "TerminateInstances"]

\* Entering a statement of main: the synchronous code before its first
\* await.  deleteResources declares its loop variables (isTruncated = true,
\* continuationToken = undefined) and makes the first loop test.
Enter(st, m) ==
    IF m = "deleteResources"
    THEN LoopTest([st EXCEPT !.mainpc = m, !.isTruncated = TRUE,
                             !.continuationToken = "none"])
    ELSE [st EXCEPT !.mainpc = m, !.pc = EntryLabel(m)]

\* The awaited function returns: main goes on to its next statement, or
\* leaves the try block after the last one.
Return(st) ==
    LET i == IndexOf(st.mainpc)
    IN  IF i = Len(MainOrder)
        THEN [st EXCEPT !.mainpc = "done", !.pc = "end"]
        ELSE Enter(st, MainOrder[i + 1])

\* A rejected call or a TypeError: nothing in the callees catches, so
\* control lands in main's catch, which logs and falls off the end.
Throw(st) ==
    [st EXCEPT !.mainpc = "caught", !.pc = "end",
               !.trace = Append(@, Log("An error occurred:"))]

Emit(st, e) == [st EXCEPT !.trace = Append(@, e)]

\* ------------------------------------------------------------------ Init
InitRun ==
    [mainpc |-> "createResources", pc |-> "RunInstances",
     instanceId |-> "none", bucketName |-> "none", queueUrl |-> "none",
     isTruncated |-> FALSE, continuationToken |-> "none",
     listResponse |-> NoResponse, i |-> 0,
     message |-> NoMessage,
     trace |-> <<>>, pages |-> <<>>, received |-> <<>>]

\* A script that is not launched.
NotLaunched == [InitRun EXCEPT !.mainpc = "off", !.pc = "end"]

\* One of the two scripts is launched.
Init == \E s \in Scripts : run = [t \in Scripts |-> IF t = s THEN InitRun ELSE NotLaunched]

\* Both scripts are launched, against the same provider.
PairInit == run = [s \in Scripts |-> InitRun]

AtLabel(l) == {s \in Scripts : run[s].pc = l}

\* ------------------------------------------------------------ responses
\* A call either rejects (ok = FALSE) or resolves with a response.
RunInstancesResponses ==
    {[ok |-> FALSE, InstanceId |-> "none"]}
    \cup {[ok |-> TRUE, InstanceId |-> id] : id \in InstanceIds}

CreateQueueResponses ==
    {[ok |-> FALSE, QueueUrl |-> "none"]}
    \cup {[ok |-> TRUE, QueueUrl |-> u] : u \in QueueUrls}

\* Calls whose response the scripts do not read.
PlainResponses == {[ok |-> FALSE], [ok |-> TRUE]}

\* DescribeInstances, ListBuckets, ListQueues: the collection the script
\* iterates (Reservations, Buckets, QueueUrls) may be absent.
CollectionResponses ==
    {[ok |-> FALSE, present |-> FALSE]}
    \cup {[ok |-> TRUE, present |-> p] : p \in BOOLEAN}

ReceiveMessageResponses ==
    {[ok |-> FALSE, MessagesPresent |-> FALSE, Messages |-> <<>>],
     [ok |-> TRUE, MessagesPresent |-> FALSE, Messages |-> <<>>]}
    \cup {[ok |-> TRUE, MessagesPresent |-> TRUE, Messages |-> ms] :
            ms \in SeqsUpTo({[ReceiptHandle |-> h] : h \in ReceiptHandles},
                            MaxNumberOfMessages)}

\* The continuation token of the n-th listing response: an opaque cursor,
\* a fresh one with every truncated page.
Token(n) == "token-" \o ToString(n)

\* The n-th listing response of a purge (n counted from 1), when the pages
\* before it listed `listed` entries.  A truncated page carries a
\* continuation token; the last page the bound allows is not truncated.
ListObjectsV2Responses(n, listed) ==
    LET contents == {[ContentsPresent |-> FALSE, Contents |-> <<>>]}
                    \cup {[ContentsPresent |-> TRUE, Contents |-> ks] :
                            ks \in SeqsUpTo({[Key |-> k] : k \in Keys},
                                            MaxObjects - listed)}
        ends == {[IsTruncated |-> FALSE, NextContinuationToken |-> "none"]}
                \cup (IF n < MaxPages
                      THEN {[IsTruncated |-> TRUE, NextContinuationToken |-> Token(n)]}
                      ELSE {})
    IN  {[ok |-> FALSE, ContentsPresent |-> FALSE, Contents |-> <<>>,
          IsTruncated |-> FALSE, NextContinuationToken |-> "none"]}
        \cup {[ok |-> TRUE, ContentsPresent |-> c.ContentsPresent,
               Contents |-> c.Contents, IsTruncated |-> e.IsTruncated,
               NextContinuationToken |-> e.NextContinuationToken] :
                c \in contents, e \in ends}

Outcome(r) == IF r.ok THEN "ok" ELSE "error"

\* ------------------------------------------------------- createResources
RunInstancesStep(s, st, r) ==
    LET sent == Emit(st, Call("RunInstances", "none", ImageId(s),
                              IF r.ok THEN r.InstanceId ELSE "error"))
    IN  IF ~r.ok THEN Throw(sent)
        ELSE [sent EXCEPT !.instanceId = r.InstanceId, !.pc = "CreateBucket"]

CreateBucketStep(s, st, name, r) ==
    LET named == [st EXCEPT !.bucketName = name]
        sent == Emit(named, Call("CreateBucket", named.bucketName, "none",
                                 IF r.ok THEN named.bucketName ELSE "error"))
    IN  IF ~r.ok THEN Throw(sent)
        ELSE [sent EXCEPT !.pc = "CreateQueue"]

CreateQueueStep(s, st, queueName, r) ==
    LET sent == Emit(st, Call("CreateQueue", "none", queueName,
                              IF r.ok THEN r.QueueUrl ELSE "error"))
    IN  IF ~r.ok THEN Throw(sent)
        ELSE [sent EXCEPT !.queueUrl = r.QueueUrl, !.pc = "sleep"]

\* ----------------------------------------------------------------- sleep
\* sleep(ms) always resolves.  The three pauses: the end of createResources
\* and the two in main.
SleepMs(s, st) ==
    CASE st.mainpc = "createResources" -> "60000"
      [] st.mainpc = "sleep_1" -> "10000"
      [] OTHER -> FinalPause(s)

SleepStep(s, st) == Return(Emit(st, Sleep(SleepMs(s, st))))

\* --------------------------------------------------------- listResources
\* `x.forEach(...)` on an absent collection is a TypeError; p1 writes
\* `x?.forEach(...)`, which skips it.
ForEachThrows(s, present) == s = "part_000" /\ ~present

CollectionStep(s, st, op, r, next) ==
    LET sent == Emit(st, Call(op, "none", "none", Outcome(r)))
    IN  IF ~r.ok \/ ForEachThrows(s, r.present) THEN Throw(sent)
        ELSE IF next = "return" THEN Return(sent)
        ELSE [sent EXCEPT !.pc = next]

DescribeInstancesStep(s, st, r) ==
    CollectionStep(s, st, "DescribeInstances", r, "ListBuckets")

ListBucketsStep(s, st, r) ==
    CollectionStep(s, st, "ListBuckets", r, "ListQueues")

ListQueuesStep(s, st, r) ==
    CollectionStep(s, st, "ListQueues", r, "return")

\* -------------------------------------------- upload, send, check, receive
UploadKey == "CSE546test.txt"

PutObjectStep(s, st, r) ==
    LET sent == Emit(st, Call("PutObject", st.bucketName, UploadKey, Outcome(r)))
    IN  IF ~r.ok THEN Throw(sent) ELSE Return(sent)

SendMessageStep(s, st, r) ==
    LET sent == Emit(st, Call("SendMessage", st.queueUrl,
                              "This is a test message", Outcome(r)))
    IN  IF ~r.ok THEN Throw(sent) ELSE Return(sent)

GetQueueAttributesStep(s, st, r) ==
    LET sent == Emit(st, Call("GetQueueAttributes", st.queueUrl,
                              "ApproximateNumberOfMessages", Outcome(r)))
    IN  IF ~r.ok THEN Throw(sent) ELSE Return(sent)

\* `response.Messages && response.Messages.length > 0`
HasMessage(r) == r.MessagesPresent /\ Len(r.Messages) > 0

\* `response.Messages[0]`
FirstMessage(r) == r.Messages[1]

\* Mutant: the received message is printed and never acknowledged.
ReceiveMessageStep_noAck(s, st, r) ==
    LET sent == [Emit(st, Call("ReceiveMessage", st.queueUrl, "All", Outcome(r)))
                   EXCEPT !.received = Append(@, r)]
    IN  IF ~r.ok THEN Throw(sent)
        ELSE IF HasMessage(r) THEN Return(sent)
        ELSE Return(Emit(sent, Log("No messages in the queue")))

ReceiveMessageStep(s, st, r) ==
    LET sent == [Emit(st, Call("ReceiveMessage", st.queueUrl, "All", Outcome(r)))
                   EXCEPT !.received = Append(@, r)]
    IN  IF ~r.ok THEN Throw(sent)
        ELSE IF HasMessage(r)
        THEN [sent EXCEPT !.message = FirstMessage(r), !.pc = "DeleteMessage"]
        ELSE Return(Emit(sent, Log("No messages in the queue")))

DeleteMessageStep(s, st, r) ==
    LET sent == Emit(st, Call("DeleteMessage", st.queueUrl,
                              st.message.ReceiptHandle, Outcome(r)))
    IN  IF ~r.ok THEN Throw(sent) ELSE Return(sent)

\* -------------------------------------------------------- deleteResources
\* Mutant: isTruncated is never updated from the response, so the loop
\* test never fails.
EndOfPage_noFlag(st) ==
    LoopTest([st EXCEPT !.continuationToken = st.listResponse.NextContinuationToken])

\* Mutant: the continuation token of the response is not carried forward.
EndOfPage_noToken(st) ==
    LoopTest([st EXCEPT !.isTruncated = st.listResponse.IsTruncated])

\* The end of the loop body and the next loop test: the loop variables
\* take the response's IsTruncated and NextContinuationToken.
EndOfPage(st) ==
    LoopTest([st EXCEPT !.isTruncated = st.listResponse.IsTruncated,
                        !.continuationToken = st.listResponse.NextContinuationToken])

\* Mutant: an off-by-one loop bound that never visits the last object.
HasObject_skipLast(lr, i) == lr.ContentsPresent /\ i < Len(lr.Contents)

\* `if (listResponse.Contents) for (const object of listResponse.Contents)`
\* has an object to visit at position i.
HasObject(lr, i) == lr.ContentsPresent /\ i <= Len(lr.Contents)

ListObjectsV2Step(s, st, r) ==
    LET page == [ContentsPresent |-> r.ContentsPresent, Contents |-> r.Contents,
                 IsTruncated |-> r.IsTruncated,
                 NextContinuationToken |-> r.NextContinuationToken]
        sent == Emit(st, Call("ListObjectsV2", st.bucketName,
                              st.continuationToken, Outcome(r)))
        got == [sent EXCEPT !.listResponse = page, !.pages = Append(@, page), !.i = 1]
    IN  IF ~r.ok THEN Throw(sent)
        ELSE IF HasObject(page, 1) THEN [got EXCEPT !.pc = "DeleteObject"]
        ELSE EndOfPage(got)

\* Mutant: the for loop leaves the page after its first object (`break`).
DeleteObjectStep_break(s, st, r) ==
    LET sent == Emit(st, Call("DeleteObject", st.bucketName,
                              st.listResponse.Contents[st.i].Key, Outcome(r)))
    IN  IF ~r.ok THEN Throw(sent)
        ELSE EndOfPage([sent EXCEPT !.i = st.i + 1])

\* Mutant: a failed delete is swallowed inside the loop and the purge goes on.
DeleteObjectStep_swallow(s, st, r) ==
    LET sent == Emit(st, Call("DeleteObject", st.bucketName,
                              st.listResponse.Contents[st.i].Key, Outcome(r)))
        nxt == [sent EXCEPT !.i = st.i + 1]
    IN  IF HasObject(nxt.listResponse, nxt.i) THEN nxt
        ELSE EndOfPage(nxt)

DeleteObjectStep(s, st, r) ==
    LET sent == Emit(st, Call("DeleteObject", st.bucketName,
                              st.listResponse.Contents[st.i].Key, Outcome(r)))
        nxt == [sent EXCEPT !.i = st.i + 1]
    IN  IF ~r.ok THEN Throw(sent)
        ELSE IF HasObject(nxt.listResponse, nxt.i) THEN nxt
        ELSE EndOfPage(nxt)

TerminateInstancesStep(s, st, r) ==
    LET sent == Emit(st, Call("TerminateInstances", st.instanceId, "none", Outcome(r)))
    IN  IF ~r.ok THEN Throw(sent) ELSE [sent EXCEPT !.pc = "DeleteBucket"]

\* Mutant: the bucket is deleted under the queue's identifier (arguments
\* of deleteResources swapped).
DeleteBucketStep_swapped(s, st, r) ==
    LET sent == Emit(st, Call("DeleteBucket", st.queueUrl, "none", Outcome(r)))
    IN  IF ~r.ok THEN Throw(sent) ELSE [sent EXCEPT !.pc = "DeleteQueue"]

DeleteBucketStep(s, st, r) ==
    LET sent == Emit(st, Call("DeleteBucket", st.bucketName, "none", Outcome(r)))
    IN  IF ~r.ok THEN Throw(sent) ELSE [sent EXCEPT !.pc = "DeleteQueue"]

DeleteQueueStep(s, st, r) ==
    LET sent == Emit(st, Call("DeleteQueue", st.queueUrl, "none", Outcome(r)))
    IN  IF ~r.ok THEN Throw(sent) ELSE Return(sent)

\* --------------------------------------------------------------- actions
\* Every script waiting at an action's label takes the step, with the same
\* response; the others stay where they are.

RunInstances ==
    /\ AtLabel("RunInstances") # {}
    /\ \E r \in RunInstancesResponses :
        run' = [s \in Scripts |->
                  IF s \in AtLabel("RunInstances")
                  THEN RunInstancesStep(s, run[s], r)
                  ELSE run[s]]

CreateBucket ==
    /\ AtLabel("CreateBucket") # {}
    /\ \E name \in BucketNames, r \in PlainResponses :
        run' = [s \in Scripts |->
                  IF s \in AtLabel("CreateBucket")
                  THEN CreateBucketStep(s, run[s], name, r)
                  ELSE run[s]]

CreateQueue ==
    /\ AtLabel("CreateQueue") # {}
    /\ \E queueName \in QueueNames, r \in CreateQueueResponses :
        run' = [s \in Scripts |->
                  IF s \in AtLabel("CreateQueue")
                  THEN CreateQueueStep(s, run[s], queueName, r)
                  ELSE run[s]]

sleep ==
    /\ AtLabel("sleep") # {}
    /\ run' = [s \in Scripts |->
              IF s \in AtLabel("sleep")
              THEN SleepStep(s, run[s])
              ELSE run[s]]

DescribeInstances ==
    /\ AtLabel("DescribeInstances") # {}
    /\ \E r \in CollectionResponses :
        run' = [s \in Scripts |->
                  IF s \in AtLabel("DescribeInstances")
                  THEN DescribeInstancesStep(s, run[s], r)
                  ELSE run[s]]

ListBuckets ==
    /\ AtLabel("ListBuckets") # {}
    /\ \E r \in CollectionResponses :
        run' = [s \in Scripts |->
                  IF s \in AtLabel("ListBuckets")
                  THEN ListBucketsStep(s, run[s], r)
                  ELSE run[s]]

ListQueues ==
    /\ AtLabel("ListQueues") # {}
    /\ \E r \in CollectionResponses :
        run' = [s \in Scripts |->
                  IF s \in AtLabel("ListQueues")
                  THEN ListQueuesStep(s, run[s], r)
                  ELSE run[s]]

PutObject ==
    /\ AtLabel("PutObject") # {}
    /\ \E r \in PlainResponses :
        run' = [s \in Scripts |->
                  IF s \in AtLabel("PutObject")
                  THEN PutObjectStep(s, run[s], r)
                  ELSE run[s]]

SendMessage ==
    /\ AtLabel("SendMessage") # {}
    /\ \E r \in PlainResponses :
        run' = [s \in Scripts |->
                  IF s \in AtLabel("SendMessage")
                  THEN SendMessageStep(s, run[s], r)
                  ELSE run[s]]

GetQueueAttributes ==
    /\ AtLabel("GetQueueAttributes") # {}
    /\ \E r \in PlainResponses :
        run' = [s \in Scripts |->
                  IF s \in AtLabel("GetQueueAttributes")
                  THEN GetQueueAttributesStep(s, run[s], r)
                  ELSE run[s]]

ReceiveMessage ==
    /\ AtLabel("ReceiveMessage") # {}
    /\ \E r \in ReceiveMessageResponses :
        run' = [s \in Scripts |->
                  IF s \in AtLabel("ReceiveMessage")
                  THEN ReceiveMessageStep(s, run[s], r)
                  ELSE run[s]]

DeleteMessage ==
    /\ AtLabel("DeleteMessage") # {}
    /\ \E r \in PlainResponses :
        run' = [s \in Scripts |->
                  IF s \in AtLabel("DeleteMessage")
                  THEN DeleteMessageStep(s, run[s], r)
                  ELSE run[s]]

\* The listing call is the one unbounded loop: at most MaxPages responses,
\* listing at most MaxObjects entries.
RECURSIVE Listed(_)
Listed(pages) ==
    IF pages = <<>> THEN 0
    ELSE Len(pages[Len(pages)].Contents) + Listed(SubSeq(pages, 1, Len(pages) - 1))

ListObjectsV2 ==
    \E s0 \in AtLabel("ListObjectsV2") :
        /\ Len(run[s0].pages) < MaxPages
        /\ \E r \in ListObjectsV2Responses(Len(run[s0].pages) + 1, Listed(run[s0].pages)) :
            run' = [s \in Scripts |->
                      IF s \in AtLabel("ListObjectsV2")
                      THEN ListObjectsV2Step(s, run[s], r)
                      ELSE run[s]]

DeleteObject ==
    /\ AtLabel("DeleteObject") # {}
    /\ \E r \in PlainResponses :
        run' = [s \in Scripts |->
                  IF s \in AtLabel("DeleteObject")
                  THEN DeleteObjectStep(s, run[s], r)
                  ELSE run[s]]

TerminateInstances ==
    /\ AtLabel("TerminateInstances") # {}
    /\ \E r \in PlainResponses :
        run' = [s \in Scripts |->
                  IF s \in AtLabel("TerminateInstances")
                  THEN TerminateInstancesStep(s, run[s], r)
                  ELSE run[s]]

DeleteBucket ==
    /\ AtLabel("DeleteBucket") # {}
    /\ \E r \in PlainResponses :
        run' = [s \in Scripts |->
                  IF s \in AtLabel("DeleteBucket")
                  THEN DeleteBucketStep(s, run[s], r)
                  ELSE run[s]]

DeleteQueue ==
    /\ AtLabel("DeleteQueue") # {}
    /\ \E r \in PlainResponses :
        run' = [s \in Scripts |->
                  IF s \in AtLabel("DeleteQueue")
                  THEN DeleteQueueStep(s, run[s], r)
                  ELSE run[s]]

Next ==
    \/ RunInstances
    \/ CreateBucket
    \/ CreateQueue
    \/ sleep
    \/ DescribeInstances
    \/ ListBuckets
    \/ ListQueues
    \/ PutObject
    \/ SendMessage
    \/ GetQueueAttributes
    \/ ReceiveMessage
    \/ DeleteMessage
    \/ ListObjectsV2
    \/ DeleteObject
    \/ TerminateInstances
    \/ DeleteBucket
    \/ DeleteQueue

Spec == Init /\ [][Next]_vars

\* Every awaited call and every pause eventually returns.
FairSpec == Spec /\ WF_vars(Next)

\* Both scripts side by side.
PairSpec == PairInit /\ [][Next]_vars

\* ================================================================ claims
\* Helpers for reading a script's record of events.
Launched == {s \in Scripts : run[s].mainpc # "off"}

IsCall(e) == e.kind = "call"
Calls(st) == SelectSeq(st.trace, IsCall)

IsPurgeCall(e) == e.op \in {"ListObjectsV2", "DeleteObject"}
IsListing(e) == e.op = "ListObjectsV2"

Issued(st, op) == {k \in 1..Len(st.trace) : st.trace[k].op = op}

\* The purge loop has been left by its loop test (not by an error).
LoopExited(st) ==
    \/ st.mainpc = "deleteResources"
         /\ st.pc \in {"TerminateInstances", "DeleteBucket", "DeleteQueue"}
    \/ st.mainpc \in {"sleep_2", "listResources_2", "done"}
    \/ Issued(st, "TerminateInstances") # {}

\* Every entry of every page received so far has a DeleteObject call for
\* its key among the first n events.
AllListedDeletedBy(st, n) ==
    \A j \in 1..Len(st.pages) : \A x \in 1..Len(st.pages[j].Contents) :
        \E k \in 1..n :
            /\ st.trace[k].op = "DeleteObject"
            /\ st.trace[k].arg = st.pages[j].Contents[x].Key

\* C1: the purge loop is left only after a listing response with
\* IsTruncated = false, and when it is left every key of every page
\* received has had a DeleteObject call issued, whatever the pages hold.
C1_PurgeExit ==
    \A s \in Scripts :
        LoopExited(run[s]) =>
            /\ run[s].pages # <<>>
            /\ ~run[s].pages[Len(run[s].pages)].IsTruncated
            /\ AllListedDeletedBy(run[s], Len(run[s].trace))

\* C1's case: the loop was left after two pages that repeat a key.
C1_Witness ==
    \E s \in Scripts :
        /\ run[s].pc = "TerminateInstances"
        /\ Len(run[s].pages) = 2
        /\ run[s].pages[1].Contents # <<>>
        /\ run[s].pages[1].Contents = run[s].pages[2].Contents

\* C2: when DeleteBucket is issued, the last listing response reported
\* IsTruncated = false, every listed key already had its DeleteObject call,
\* and no call of the purge comes after it.
C2_BucketAfterPurge ==
    \A s \in Scripts : \A k \in Issued(run[s], "DeleteBucket") :
        /\ run[s].pages # <<>>
        /\ ~run[s].pages[Len(run[s].pages)].IsTruncated
        /\ AllListedDeletedBy(run[s], k - 1)
        /\ \A m \in k..Len(run[s].trace) : ~IsPurgeCall(run[s].trace[m])

\* C2's case: DeleteBucket has been issued after a purge of two pages that
\* deleted objects.
C2_Witness ==
    \E s \in Scripts :
        /\ Issued(run[s], "DeleteBucket") # {}
        /\ Len(run[s].pages) = 2
        /\ run[s].pages[1].IsTruncated
        /\ run[s].pages[2].Contents # <<>>

\* `r` is a receive response that returned a message.
Returned(r) == r.ok /\ r.MessagesPresent /\ r.Messages # <<>>

\* C3: DeleteMessage is issued exactly when the receive response just
\* before it returned a message, with the receipt handle of that response's
\* first message; a response without a message leads to the queue-empty
\* line, no DeleteMessage and no error.
C3_ReceiveThenDelete ==
    \A s \in Scripts :
        LET st == run[s]
            tr == st.trace
        IN  /\ \A k \in Issued(st, "DeleteMessage") :
                /\ k > 1
                /\ tr[k - 1].op = "ReceiveMessage"
                /\ Len(st.received) = 1
                /\ Returned(st.received[1])
                /\ tr[k].arg = st.received[1].Messages[1].ReceiptHandle
                /\ tr[k].target = tr[k - 1].target
            /\ \A k \in Issued(st, "ReceiveMessage") :
                /\ Len(st.received) = 1
                /\ Returned(st.received[1]) =>
                        IF k = Len(tr) THEN st.pc = "DeleteMessage"
                        ELSE tr[k + 1].op = "DeleteMessage"
                /\ (st.received[1].ok /\ ~Returned(st.received[1])) =>
                        /\ k < Len(tr)
                        /\ tr[k + 1] = Log("No messages in the queue")
                        /\ Issued(st, "DeleteMessage") = {}
                        /\ k + 1 = Len(tr) => st.mainpc = "checkSQSMessages_2"

\* C3's case, first half: a message was returned and deleted by its handle.
C3_Witness ==
    \E s \in Scripts :
        /\ run[s].mainpc = "checkSQSMessages_2"
        /\ run[s].received # <<>>
        /\ Returned(run[s].received[1])
        /\ run[s].received[1].Messages[1].ReceiptHandle = "h2"
        /\ Issued(run[s], "DeleteMessage") # {}

IsFailedCall(e) == e.kind = "call" /\ e.result = "error"

\* C4: a failed call is the last call of the run: main's handler runs (its
\* line is the only event after the call) and the run is over, whatever
\* had been created.
C4_FailureEndsRun ==
    \A s \in Scripts :
        LET st == run[s]
        IN  \A k \in 1..Len(st.trace) :
                IsFailedCall(st.trace[k]) =>
                    /\ st.mainpc = "caught"
                    /\ k + 1 = Len(st.trace)
                    /\ st.trace[k + 1] = Log("An error occurred:")

\* C4's case: a DeleteObject of the purge failed with all three resources
\* created; no teardown call follows.
C4_Witness ==
    \E s \in Scripts :
        LET st == run[s]
        IN  /\ st.mainpc = "caught"
            /\ Len(st.trace) > 1
            /\ st.trace[Len(st.trace) - 1].op = "DeleteObject"
            /\ IsFailedCall(st.trace[Len(st.trace) - 1])
            /\ st.instanceId # "none" /\ st.queueUrl # "none"
            /\ Issued(st, "TerminateInstances") = {}

Ended(st) == st.mainpc \in {"done", "caught"}

IsStep(e) == e.kind # "log"
OpOf(seq) == [k \in 1..Len(seq) |-> seq[k].op]

IsPrefix(a, b) == Len(a) <= Len(b) /\ SubSeq(b, 1, Len(a)) = a

\* The driver's order up to the purge, with and without the DeleteMessage
\* of the receive, and from the purge on.
BeforePurge(withDelete) ==
    << "RunInstances", "CreateBucket", "CreateQueue", "sleep",
       "DescribeInstances", "ListBuckets", "ListQueues",
       "PutObject", "SendMessage", "GetQueueAttributes", "ReceiveMessage" >>
    \o (IF withDelete THEN << "DeleteMessage" >> ELSE << >>)
    \o << "GetQueueAttributes", "sleep" >>

AfterPurge ==
    << "TerminateInstances", "DeleteBucket", "DeleteQueue", "sleep",
       "DescribeInstances", "ListBuckets", "ListQueues" >>

\* The events of st are the driver's whole order: everything before the
\* purge once, then purge calls only (at least the first listing), then
\* the teardown calls, the pause and the final listing once.
WholeOrder(st) ==
    LET ops == OpOf(SelectSeq(st.trace, IsStep))
        head == BeforePurge(st.received # <<>> /\ Returned(st.received[1]))
        n == Len(ops) - Len(head) - Len(AfterPurge)
    IN  /\ n >= 1
        /\ SubSeq(ops, 1, Len(head)) = head
        /\ \A k \in Len(head) + 1 .. Len(head) + n :
              ops[k] \in {"ListObjectsV2", "DeleteObject"}
        /\ ops[Len(head) + 1] = "ListObjectsV2"
        /\ SubSeq(ops, Len(head) + n + 1, Len(ops)) = AfterPurge

NoCallFailed(st) == \A k \in 1..Len(st.trace) : ~IsFailedCall(st.trace[k])

\* C5: a run in which no call fails goes through every phase of the driver
\* once, in the driver's order.
C5_DriverOrder ==
    \A s \in Launched :
        (Ended(run[s]) /\ NoCallFailed(run[s])) => WholeOrder(run[s])

InstanceOps == {"TerminateInstances"}
BucketOps == {"PutObject", "ListObjectsV2", "DeleteObject", "DeleteBucket"}
QueueOps == {"SendMessage", "GetQueueAttributes", "ReceiveMessage",
             "DeleteMessage", "DeleteQueue"}

\* Event k names the resource that an earlier, successful creation call
\* `create` produced: the bucket by the name sent, the others by the
\* identifier returned.
NamesCreated(st, k, create) ==
    \E c \in 1..(k - 1) :
        /\ st.trace[c].op = create
        /\ st.trace[c].result # "error"
        /\ st.trace[k].target = st.trace[c].result

\* C6: every call on an instance, a bucket or a queue comes after the
\* successful creation of that resource in the same run and names what it
\* produced; each creation and each teardown call is issued at most once.
C6_IdentifiersThreaded ==
    \A s \in Scripts :
        LET st == run[s]
        IN  /\ \A k \in 1..Len(st.trace) :
                /\ st.trace[k].op \in InstanceOps => NamesCreated(st, k, "RunInstances")
                /\ st.trace[k].op \in BucketOps => NamesCreated(st, k, "CreateBucket")
                /\ st.trace[k].op \in QueueOps => NamesCreated(st, k, "CreateQueue")
            /\ \A op \in {"RunInstances", "CreateBucket", "CreateQueue",
                          "TerminateInstances", "DeleteBucket", "DeleteQueue"} :
                Cardinality(Issued(st, op)) <= 1

\* C6's case: a whole run on the second bucket name and queue URL, with a
\* DeleteObject in its purge.
C6_Witness ==
    \E s \in Scripts :
        /\ run[s].mainpc = "done"
        /\ run[s].instanceId = "i-1"
        /\ run[s].bucketName = "my-test-bucket-2"
        /\ run[s].queueUrl = "url-2"
        /\ Issued(run[s], "DeleteObject") # {}

\* A call without the constants the scripts are allowed to differ in.
Masked(e) == IF e.op = "RunInstances" THEN [e EXCEPT !.arg = "ImageId"] ELSE e
MaskedCalls(st) == [k \in 1..Len(Calls(st)) |-> Masked(Calls(st)[k])]

\* C7: side by side against the same provider, the two scripts have issued
\* the same calls with the same arguments and are at the same place of
\* main, the error handler included.
C7_SameCalls ==
    /\ MaskedCalls(run["p1"]) = MaskedCalls(run["part_000"])
    /\ run["p1"].mainpc = run["part_000"].mainpc
    /\ run["p1"].pc = run["part_000"].pc

ListingCalls(st) == SelectSeq(st.trace, IsListing)

\* C8: the first listing call carries no continuation token, each later
\* one the token of the response just before it; a listing call follows
\* only a truncated page, so there are as many calls as pages up to the
\* first page with IsTruncated = false, and one call when the first page
\* is not truncated.
C8_TokenChain ==
    \A s \in Scripts :
        LET st == run[s]
            L == ListingCalls(st)
            pg == st.pages
        IN  /\ Len(L) \in {Len(pg), Len(pg) + 1}
            /\ Len(L) = Len(pg) + 1 => L[Len(L)].result = "error"
            /\ \A j \in 1..Len(L) :
                L[j].arg = IF j = 1 THEN "none" ELSE pg[j - 1].NextContinuationToken
            /\ \A j \in 1..(Len(pg) - 1) : pg[j].IsTruncated
            /\ LoopExited(st) => Len(L) = Len(pg) /\ ~pg[Len(pg)].IsTruncated
            /\ (pg # <<>> /\ ~pg[1].IsTruncated) => Len(L) = 1

\* C8's case: the loop was left after a second listing call that carried
\* the token of the first response.
C8_Witness ==
    \E s \in Scripts :
        /\ run[s].pc = "TerminateInstances"
        /\ Len(ListingCalls(run[s])) = 2
        /\ ListingCalls(run[s])[2].arg = run[s].pages[1].NextContinuationToken
        /\ ListingCalls(run[s])[2].arg # "none"

\* What a purge handed `pages` issues: per page the listing call, then one
\* DeleteObject per entry, in the page's order.
RECURSIVE ExpectedPurge(_)
ExpectedPurge(pages) ==
    IF pages = <<>> THEN <<>>
    ELSE LET last == pages[Len(pages)]
         IN  ExpectedPurge(SubSeq(pages, 1, Len(pages) - 1))
             \o << "list" >>
             \o [x \in 1..Len(last.Contents) |-> last.Contents[x].Key]

IsAnsweredPurgeCall(e) == IsPurgeCall(e) /\ e.result # "error"

\* The purge calls that were answered: "list" for a listing, the key for a
\* DeleteObject.
ActualPurge(st) ==
    LET calls == SelectSeq(st.trace, IsAnsweredPurgeCall)
    IN  [k \in 1..Len(calls) |->
            IF calls[k].op = "ListObjectsV2" THEN "list" ELSE calls[k].arg]

\* C9: the purge issues one DeleteObject per entry of each page, one key
\* per call, in the page's order and before the next listing call, and
\* none for a key that was not listed; a page without contents gets no
\* DeleteObject and the run goes on.
C9_OneDeletePerEntry ==
    \A s \in Scripts :
        LET st == run[s]
            act == ActualPurge(st)
            exp == ExpectedPurge(st.pages)
        IN  /\ IsPrefix(act, exp)
            /\ \A k \in Issued(st, "DeleteObject") :
                 st.trace[k].result = "error" =>
                    /\ Len(act) < Len(exp)
                    /\ st.trace[k].arg = exp[Len(act) + 1]
            /\ (LoopExited(st) \/ st.pc = "ListObjectsV2") => act = exp
            /\ st.pc = "DeleteObject" => Len(act) < Len(exp)

\* C9's case: the loop was left after a page of two different keys, then a
\* page without contents.
C9_Witness ==
    \E s \in Scripts :
        /\ run[s].pc = "TerminateInstances"
        /\ Len(run[s].pages) = 2
        /\ Len(run[s].pages[1].Contents) = 2
        /\ run[s].pages[1].Contents[1] # run[s].pages[1].Contents[2]
        /\ ~run[s].pages[2].ContentsPresent

AllEnded == \A s \in Launched : Ended(run[s])

TeardownIssued(st) ==
    Issued(st, "TerminateInstances") \cup Issued(st, "DeleteBucket")
        \cup Issued(st, "DeleteQueue")

\* C10: when every call and pause returns and the listing comes to a page
\* with IsTruncated = false, the run ends, after the final listing or in
\* main's handler; as long as the last listing response reports
\* IsTruncated = true, no teardown call has been issued.
C10_Termination ==
    /\ <>AllEnded
    /\ [](\A s \in Scripts :
            (run[s].pages # <<>> /\ run[s].pages[Len(run[s].pages)].IsTruncated)
                => TeardownIssued(run[s]) = {})

\* C10's case: a run that ended after the final listing, its purge having
\* gone round the loop twice.
C10_Witness ==
    \E s \in Scripts :
        /\ run[s].mainpc = "done"
        /\ Len(run[s].pages) = 2
        /\ run[s].pages[1].IsTruncated

====
